---- MODULE Spec2Model ----
(***************************************************************************)
(* Contract-Management-System: the request gate (middleware) and the       *)
(* client auth-state cache (AuthService).                                   *)
(*                                                                         *)
(* Paths, cookie values and referers are TLA+ strings; the string          *)
(* predicates of the source (startsWith, includes, endsWith, split) are    *)
(* computed character by character.                                        *)
(***************************************************************************)
EXTENDS Integers, Sequences, FiniteSets, TLC

(***************************************************************************)
(* String primitives (JavaScript String.prototype)                         *)
(***************************************************************************)

\* s.startsWith(p)
StartsWith(s, p) ==
  /\ Len(s) >= Len(p)
  /\ SubSeq(s, 1, Len(p)) = p

\* s.endsWith(p)
EndsWith(s, p) ==
  /\ Len(s) >= Len(p)
  /\ SubSeq(s, Len(s) - Len(p) + 1, Len(s)) = p

\* s.includes(p)
Includes(s, p) ==
  \E i \in 1..(Len(s) - Len(p) + 1) : SubSeq(s, i, i + Len(p) - 1) = p

\* the positions of the one-character separator c in s
Positions(s, c) == {i \in 1..Len(s) : SubSeq(s, i, i) = c}

\* s.split(c).length for a one-character separator c
SplitLength(s, c) == Cardinality(Positions(s, c)) + 1

\* s.split(c)[1] for a one-character separator c; "" stands for undefined
\* (the array has one element only) as well as for an empty segment.
SplitSecond(s, c) ==
  LET pos == Positions(s, c) IN
  IF pos = {} THEN ""
  ELSE LET first == CHOOSE i \in pos : \A j \in pos : i <= j
           later == {j \in pos : j > first}
           stop  == IF later = {} THEN Len(s) + 1
                    ELSE CHOOSE i \in later : \A j \in later : i <= j
       IN  SubSeq(s, first + 1, stop - 1)

(***************************************************************************)
(* Optional values: a cookie, a header or a query parameter that may be    *)
(* absent (undefined / null in the source)                                 *)
(***************************************************************************)

Absent == [present |-> FALSE, value |-> ""]

Some(v) == [present |-> TRUE, value |-> v]

\* JavaScript truthiness of an optional string: present and not empty
Truthy(o) == o.present /\ o.value # ""

(***************************************************************************)
(* The request gate: middleware(req)                                       *)
(***************************************************************************)

\* the timer of the Promise.race, in milliseconds
LookupTimeoutMs == 5000

\* the longest chain of redirects the browser is followed through
MaxHops == 3

\* validLocales / the locale list of pathnameIsMissingLocale
ValidLocales == {"en", "ar"}

\* const locale = 'en'
DefaultLocale == "en"

\* the two cookies the gate inspects and clears
AuthCookieNames == {"sb-auth-token.0", "sb-auth-token.1"}

\* NextResponse.next(): continue to the page, no cookie set
NextResponseNext ==
  [kind |-> "next", pathname |-> "", search |-> Absent, setCookies |-> {}]

\* NextResponse.redirect(url): a new response object, url = req.nextUrl.clone()
\* with its pathname (and possibly its redirect parameter) replaced
NextResponseRedirect(pathname, search) ==
  [kind |-> "redirect", pathname |-> pathname, search |-> search,
   setCookies |-> {}]

\* res.cookies.set({name, value: '', expires: new Date(0), path: '/'})
\* for both names
ClearAuthCookies(res) ==
  [res EXCEPT !.setCookies =
     @ \cup {[name |-> n, value |-> "", expiresAtEpoch |-> TRUE, path |-> "/"]
               : n \in AuthCookieNames}]

\* the skip condition for static files and API routes
IsExcludedNoApi(pathname) ==
  \/ StartsWith(pathname, "/_next")
  \/ Includes(pathname, ".")
  \/ StartsWith(pathname, "/favicon.ico")

IsExcluded(pathname) ==
  \/ StartsWith(pathname, "/_next")
  \/ StartsWith(pathname, "/api")
  \/ Includes(pathname, ".")
  \/ StartsWith(pathname, "/favicon.ico")

\* the redirect-loop check on the referer
IsLoginLoopExactPath(referer, pathname) ==
  /\ Truthy(referer)
  /\ pathname = "/auth/login"
  /\ Includes(referer.value, "/auth/login")

IsLoginLoop(referer, pathname) ==
  /\ Truthy(referer)
  /\ Includes(pathname, "/auth/login")
  /\ Includes(referer.value, "/auth/login")

\* ['en', 'ar'].every(locale => !pathname.startsWith(`/${locale}/`) &&
\*                              pathname !== `/${locale}`)
PathnameIsMissingLocaleAlways(pathname) == TRUE

PathnameIsMissingLocaleExactOnly(pathname) ==
  \A locale \in ValidLocales : pathname # "/" \o locale

PathnameIsMissingLocale(pathname) ==
  \A locale \in ValidLocales :
     /\ ~StartsWith(pathname, "/" \o locale \o "/")
     /\ pathname # "/" \o locale

\* pathLocale = pathname.split('/')[1], kept when it is a valid locale
CurrentLocale(pathname) ==
  LET pathLocale == SplitSecond(pathname, "/") IN
  IF pathLocale \in ValidLocales THEN pathLocale ELSE DefaultLocale

\* the routes that need no authentication
PublicRoutes(currentLocale) ==
  {"/" \o currentLocale \o r : r \in
     {"/auth/login", "/auth/signup", "/auth/forgot-password",
      "/auth/reset-password", "/auth/callback", "/auth/bypass", "/demo",
      "/onboarding", "/test-auth", "/test-auth-system", "/test-user-signup",
      "/debug-auth", "/debug-promoter", "/dashboard/debug", "/test-dashboard",
      "/debug-redirect", "/test-cookie-fix", "/debug-login-flow",
      "/test-client-session"}}
  \cup {"/test-login"}

\* publicRoutes.some(route => pathname.startsWith(route))
IsPublicRoute(pathname, currentLocale) ==
  \E route \in PublicRoutes(currentLocale) : StartsWith(pathname, route)

\* isTruncated(cookie)
IsTruncated(cookie) ==
  IF ~Truthy(cookie) THEN FALSE
  ELSE IF EndsWith(cookie.value, "...") THEN TRUE
  ELSE IF Len(cookie.value) < 10 THEN TRUE
  ELSE IF SplitLength(cookie.value, ".") # 3 THEN TRUE
  ELSE FALSE

\* if (!session && !isPublicRoute)
IsOnProtected(session, isPublicRoute) == ~isPublicRoute

IsUnauthenticatedOnProtected(session, isPublicRoute) ==
  ~Truthy(session) /\ ~isPublicRoute

\* if (pathname.includes('/auth/login')) return res, inside the branch above
IsAlreadyOnLogin(pathname) == Includes(pathname, "/auth/login")

\* if (session && pathname.startsWith(`/${currentLocale}/auth/login`))
IsAuthenticatedOnLogin(session, pathname, currentLocale) ==
  /\ Truthy(session)
  /\ StartsWith(pathname, "/" \o currentLocale \o "/auth/login")

\* if (isTruncated(authToken0) || isTruncated(authToken1)) { if (!session) ...
ShouldClearCookiesAnySession(session, authToken0, authToken1) ==
  IsTruncated(authToken0) \/ IsTruncated(authToken1)

ShouldClearCookies(session, authToken0, authToken1) ==
  /\ IsTruncated(authToken0) \/ IsTruncated(authToken1)
  /\ ~Truthy(session)

\* the redirect to the login page: url.pathname = `/${currentLocale}/auth/login`,
\* url.searchParams.set('redirect', pathname)
LoginRedirect(currentLocale, pathname) ==
  NextResponseRedirect("/" \o currentLocale \o "/auth/login", Some(pathname))

\* the redirect to the dashboard: url.pathname = `/${currentLocale}/dashboard`,
\* the query string of the request is kept by the clone
DashboardRedirectDefaultLocale(currentLocale, search) ==
  NextResponseRedirect("/" \o DefaultLocale \o "/dashboard", search)

DashboardRedirect(currentLocale, search) ==
  NextResponseRedirect("/" \o currentLocale \o "/dashboard", search)

\* the redirect that adds the default locale: url.pathname = `/${locale}${pathname}`
LocaleRedirect(pathname, search) ==
  NextResponseRedirect("/" \o DefaultLocale \o pathname, search)

\* the root path handler: if (req.nextUrl.pathname === '/')
RootRedirect(session, currentLocale, search) ==
  IF Truthy(session)
  THEN NextResponseRedirect("/" \o currentLocale \o "/dashboard", search)
  ELSE NextResponseRedirect("/" \o currentLocale \o "/auth/login", search)

\* the cookie check and what follows it, for a request that was neither
\* redirected nor let through before; res is the response under construction
CookieAndRootStage(r, session, res, currentLocale, isPublicRoute) ==
  LET clear == ShouldClearCookies(session, r.cookie0, r.cookie1)
      res2  == IF clear THEN ClearAuthCookies(res) ELSE res
  IN  IF clear /\ ~isPublicRoute
      THEN LoginRedirect(currentLocale, r.pathname)
      ELSE IF r.pathname = "/"
      THEN RootRedirect(session, currentLocale, r.search)
      ELSE res2

\* the decision chain once the session lookup has resolved without error
DecideWithSession(r, session, res) ==
  IF PathnameIsMissingLocale(r.pathname)
  THEN LocaleRedirect(r.pathname, r.search)
  ELSE
    LET currentLocale == CurrentLocale(r.pathname)
        isPublicRoute == IsPublicRoute(r.pathname, currentLocale)
    IN  IF IsUnauthenticatedOnProtected(session, isPublicRoute)
        THEN IF IsAlreadyOnLogin(r.pathname)
             THEN res
             ELSE LoginRedirect(currentLocale, r.pathname)
        ELSE IF IsAuthenticatedOnLogin(session, r.pathname, currentLocale)
        THEN DashboardRedirect(currentLocale, r.search)
        ELSE CookieAndRootStage(r, session, res, currentLocale, isPublicRoute)

\* if (sessionError) return res
SessionErrorResponse(r, res) == res

\* catch (error) return res: a rejected or thrown lookup and the timer's rejection
CatchResponseBlocking(r, res) == LoginRedirect(DefaultLocale, r.pathname)

CatchResponse(r, res) == res

(***************************************************************************)
(* The gate as a state machine: one request at a time, suspended once, at   *)
(* the await of the Promise.race                                            *)
(***************************************************************************)

VARIABLES
  gpc,       \* "idle", "start" (request received), "await" (race pending), "done"
  req,       \* the request: pathname, search (redirect parameter), referer, cookies
  provider,  \* what the identity provider will answer, and after how long
  lookup,    \* the session lookup: "none", "pending", "resolved", "errored",
             \* "rejected", "threw", "timedOut"
  session,   \* the gate's local session, Absent until the lookup resolves
  response,  \* the response returned (kind "none" until the gate returns)
  chain      \* the requests and responses that led here by redirects

gvars == <<gpc, req, provider, lookup, session, response, chain>>

\* the state of the client auth-state cache (AuthService, below)
VARIABLES
  hasWindow,       \* typeof window !== 'undefined'
  supabaseClient,  \* TRUE once ensureClient() has created the client
  authState,       \* the cache's record
  listeners,       \* the registered callbacks
  unsubscribers,   \* the callbacks whose unsubscribe function has been handed out
  ipc,             \* each initializeAuth() call: "idle", "getSession", "refresh",
                   \* "checkFetch", "checkJson", "done"
  currentSession,  \* each call's local currentSession
  background,      \* each call's profile-and-roles load: "none", "pending", "done"
  delivered,       \* the callback invocations of the last operation step, in order
  lastOp,          \* the last operation step taken, and what its await gave
  updated,         \* TRUE once updateState() has run
  alone,           \* each initializeAuth() call: TRUE while no step of anything
                   \* else has been taken since it was called
  opc,             \* the caller-invoked operation in flight: its name, its
                   \* position, its locals
  result,          \* what the last step returned to its caller, if it returned
  answers          \* what the provider answers to every call of a run, when
                   \* the run is one in which it answers all calls alike

avars == <<hasWindow, supabaseClient, authState, listeners, unsubscribers, ipc,
           currentSession, background, delivered, lastOp, updated, alone,
           opc, result, answers>>

\* the state of the caller-invoked operations
ovars == <<opc, result>>

\* the state of the check-session endpoint (GET /api/auth/check-session, below)
VARIABLES
  rpc,     \* each request: "idle", "createClient", "cookies", "getSession",
           \* "getUser", "done"
  rlocal,  \* each request's locals: session, sessionError, user, userError
  rbody    \* each request's JSON response body, null until it is returned

rvars == <<rpc, rlocal, rbody>>

\* the components together
vars == <<gvars, avars, rvars>>

\* the request paths tried
Paths ==
  {"/", "/dashboard", "/auth/login", "/english", "/fr/dashboard",
   "/en", "/ar", "/en/", "/en/dashboard", "/ar/dashboard", "/en/contracts",
   "/ar/contracts/new", "/en/auth/login", "/ar/auth/login", "/en/auth/signup",
   "/ar/demo", "/en/dashboard/debug", "/en/test-login", "/test-login",
   "/en/admin/auth/login", "/ar/en/auth/login",
   "/_next/static/chunk", "/api/auth/check-session", "/apidocs",
   "/favicon.ico", "/en/logo.png", "/ar/auth/login.bak"}

Referers ==
  {Absent, Some(""), Some("http://h/en/auth/login"), Some("http://h/en/dashboard")}

\* cookie values: absent, empty, of length 5, a well-shaped token, a long value
\* without dots, a value cut with an ellipsis
Cookie0Values ==
  {Absent, Some(""), Some("abcde"), Some("aaaa.bbbb.cccc"),
   Some("aaaaaaaaaaaa"), Some("aaaa.bbbb.c...")}

Cookie1Values == {Absent, Some("abcde"), Some("aaaa.bbbb.cccc")}

\* the lookup's latencies in milliseconds: before, at and after the timer
Latencies == {LookupTimeoutMs - 1, LookupTimeoutMs, LookupTimeoutMs + 1}

\* how the provider answers getSession(): a result, a result carrying an error,
\* a rejected promise, an exception thrown by the call itself
Faults == {"none", "error", "reject", "throw"}

Providers ==
  [hasSession : BOOLEAN, fault : Faults, latency : Latencies]

NoResponse ==
  [kind |-> "none", pathname |-> "", search |-> Absent, setCookies |-> {}]

NoRequest ==
  [pathname |-> "", search |-> Absent, referer |-> Absent,
   cookie0 |-> Absent, cookie1 |-> Absent]

GateInit ==
  /\ gpc = "idle"
  /\ req = NoRequest
  /\ provider = [hasSession |-> FALSE, fault |-> "none",
                 latency |-> LookupTimeoutMs - 1]
  /\ lookup = "none"
  /\ session = Absent
  /\ response = NoResponse
  /\ chain = <<>>

\* a request arrives; requests share no state, so one is followed at a time
Request ==
  /\ UNCHANGED <<avars, rvars>>
  /\ gpc = "idle"
  /\ \E p \in Paths, ref \in Referers, c0 \in Cookie0Values, c1 \in Cookie1Values :
       req' = [pathname |-> p, search |-> Absent, referer |-> ref,
               cookie0 |-> c0, cookie1 |-> c1]
  /\ provider' \in Providers
  /\ gpc' = "start"
  /\ lookup' = "none"
  /\ session' = Absent
  /\ response' = NoResponse
  /\ chain' = <<>>

\* middleware() up to its await: the exclusion test, the referer test, the
\* start of the lookup (which may throw)
GateEnter ==
  /\ UNCHANGED <<avars, rvars>>
  /\ gpc = "start"
  /\ IF IsExcluded(req.pathname)
     THEN /\ response' = NextResponseNext
          /\ gpc' = "done"
          /\ lookup' = lookup
     ELSE IF IsLoginLoop(req.referer, req.pathname)
     THEN /\ response' = NextResponseNext
          /\ gpc' = "done"
          /\ lookup' = lookup
     ELSE IF provider.fault = "throw"
     THEN /\ response' = CatchResponse(req, NextResponseNext)
          /\ gpc' = "done"
          /\ lookup' = "threw"
     ELSE /\ response' = response
          /\ gpc' = "await"
          /\ lookup' = "pending"
  /\ UNCHANGED <<req, provider, session, chain>>

\* the lookup's promise settles first; the rest of middleware() runs
LookupSettles ==
  /\ UNCHANGED <<avars, rvars>>
  /\ gpc = "await"
  /\ provider.latency <= LookupTimeoutMs
  /\ gpc' = "done"
  /\ IF provider.fault = "reject"
     THEN /\ lookup' = "rejected"
          /\ session' = session
          /\ response' = CatchResponse(req, NextResponseNext)
     ELSE IF provider.fault = "error"
     THEN /\ lookup' = "errored"
          /\ session' = session
          /\ response' = SessionErrorResponse(req, NextResponseNext)
     ELSE /\ lookup' = "resolved"
          /\ session' = IF provider.hasSession THEN Some("user-1") ELSE Absent
          /\ response' = DecideWithSession(req, session', NextResponseNext)
  /\ UNCHANGED <<req, provider, chain>>

\* the timer rejects first: the catch block returns res
TimerFires ==
  /\ UNCHANGED <<avars, rvars>>
  /\ gpc = "await"
  /\ provider.latency >= LookupTimeoutMs
  /\ gpc' = "done"
  /\ lookup' = "timedOut"
  /\ response' = CatchResponse(req, NextResponseNext)
  /\ UNCHANGED <<req, provider, session, chain>>

\* the cookie the browser holds after a response
CookieAfter(name, old, resp) ==
  IF \E c \in resp.setCookies : c.name = name THEN Absent ELSE old

\* the browser follows a redirect: same referer, same session status at the
\* provider; the new lookup may fail or be slow on its own
Follow ==
  /\ UNCHANGED <<avars, rvars>>
  /\ gpc = "done"
  /\ response.kind = "redirect"
  /\ Len(chain) < MaxHops
  /\ chain' = Append(chain, [pathname |-> req.pathname, response |-> response])
  /\ req' = [pathname |-> response.pathname,
             search   |-> response.search,
             referer  |-> req.referer,
             cookie0  |-> CookieAfter("sb-auth-token.0", req.cookie0, response),
             cookie1  |-> CookieAfter("sb-auth-token.1", req.cookie1, response)]
  /\ gpc' = "start"
  /\ lookup' = "none"
  /\ session' = Absent
  /\ response' = NoResponse
  /\ provider' \in {q \in Providers : q.hasSession = provider.hasSession}

GateNext == Request \/ GateEnter \/ LookupSettles \/ TimerFires \/ Follow

(***************************************************************************)
(* Properties of the gate                                                  *)
(***************************************************************************)

\* the gate has returned
Returned == gpc = "done"

\* the response lets the request through and sets no cookie
PassThrough == response.kind = "next" /\ response.setCookies = {}

\* the response is a redirect to pathname p
RedirectsTo(p) == response.kind = "redirect" /\ response.pathname = p

\* both named cookies are cleared by the response: empty value, expiry at epoch
ClearsBothCookies ==
  \A n \in AuthCookieNames :
     \E c \in response.setCookies :
        c.name = n /\ c.value = "" /\ c.expiresAtEpoch

\* the path is one the gate skips, spelled out as in the claim
ExcludedPath(p) ==
  \/ StartsWith(p, "/_next")
  \/ StartsWith(p, "/api")
  \/ StartsWith(p, "/favicon.ico")
  \/ Includes(p, ".")

\* the path is /L or lies under /L/
UnderLocale(p, L) == p = "/" \o L \/ StartsWith(p, "/" \o L \o "/")

\* the path carries no recognized locale
NoLocalePrefix(p) == ~UnderLocale(p, "en") /\ ~UnderLocale(p, "ar")

\* the lookup resolved in time, without error
LookupOk == Returned /\ lookup = "resolved"

\* C1: for every request whose path starts with /_next, /api or /favicon.ico,
\* or contains a '.', the gate returns pass-through: no redirect, no cookie
\* mutation, and no session lookup is ever started, whatever the cookies, the
\* referer and the session status are.
C1_ExcludedPassThrough ==
  (gpc # "idle" /\ ExcludedPath(req.pathname)) =>
     /\ lookup = "none"
     /\ gpc \in {"start", "done"}
     /\ Returned => PassThrough

\* C1 witness: an /api request carrying a malformed cookie, sent from the login
\* page by a client that has a session, has been answered.
C1_Witness ==
  /\ Returned
  /\ req.pathname = "/api/auth/check-session"
  /\ req.cookie0 = Some("abcde")
  /\ req.referer = Some("http://h/en/auth/login")
  /\ provider.hasSession
  /\ PassThrough

\* C2 (as claimed): when the lookup resolves with no session and no error, every
\* non-excluded path under /L (L in {en, ar}) outside the public routes of L is
\* answered by a redirect to /L/auth/login with redirect=<original path>.
C2_ProtectedPathRedirectsToLogin ==
  \A L \in ValidLocales :
    ( /\ LookupOk
      /\ ~Truthy(session)
      /\ ~ExcludedPath(req.pathname)
      /\ UnderLocale(req.pathname, L)
      /\ ~\E route \in PublicRoutes(L) : StartsWith(req.pathname, route) )
    => /\ RedirectsTo("/" \o L \o "/auth/login")
       /\ response.search = Some(req.pathname)

C4_InvalidCookieClearedAndRedirected ==
  ( /\ LookupOk
    /\ ~Truthy(session)
    /\ \E L \in ValidLocales : UnderLocale(req.pathname, L)
    /\ IsTruncated(req.cookie0) \/ IsTruncated(req.cookie1) )
  => /\ ClearsBothCookies
     /\ \A L \in ValidLocales :
          ( /\ UnderLocale(req.pathname, L)
            /\ ~\E route \in PublicRoutes(L) :
                  StartsWith(req.pathname, route) )
          => /\ RedirectsTo("/" \o L \o "/auth/login")
             /\ response.search.present

C6_SessionOnLoginRedirects ==
  \A L \in ValidLocales :
    ( /\ Returned
      /\ provider.hasSession
      /\ provider.fault = "none"
      /\ provider.latency < LookupTimeoutMs
      /\ req.pathname = "/" \o L \o "/auth/login" )
    => RedirectsTo("/" \o L \o "/dashboard")

\* C6 (amended): whenever the session lookup is performed and resolves in time
\* with a session and no error, and the path is /L/auth/login, the response is
\* a redirect to /L/dashboard of the same locale.
C6_ResolvedSessionOnLoginRedirects ==
  \A L \in ValidLocales :
    (LookupOk /\ Truthy(session) /\ req.pathname = "/" \o L \o "/auth/login")
    => RedirectsTo("/" \o L \o "/dashboard")

\* C6 witness: a signed-in request to the Arabic login page was redirected to
\* the Arabic dashboard.
C6_Witness ==
  /\ LookupOk
  /\ Truthy(session)
  /\ req.pathname = "/ar/auth/login"
  /\ RedirectsTo("/ar/dashboard")

\* the request before this one in the redirect chain
Previous == chain[Len(chain)]

\* the request before this one was answered by the locale-prefix redirect
CameByLocaleRedirect ==
  /\ Len(chain) > 0
  /\ NoLocalePrefix(Previous.pathname)
  /\ Previous.response.kind = "redirect"
  /\ Previous.response.pathname = "/en" \o Previous.pathname

\* C7: a non-excluded path without locale prefix whose lookup resolves without
\* error is redirected to /en<path>, and the gate never answers that redirect's
\* target with a second locale-prefix redirect.
C7_LocalePrefixOnce ==
  /\ (LookupOk /\ ~ExcludedPath(req.pathname) /\ NoLocalePrefix(req.pathname))
       => RedirectsTo("/en" \o req.pathname)
  /\ (Returned /\ CameByLocaleRedirect)
       => ~RedirectsTo("/en" \o req.pathname)

\* C7 witness: /dashboard was redirected to /en/dashboard, and the gate has
\* answered /en/dashboard after a lookup that resolved.
C7_Witness ==
  /\ LookupOk
  /\ CameByLocaleRedirect
  /\ Previous.pathname = "/dashboard"
  /\ req.pathname = "/en/dashboard"

\* C8 (as claimed): a request for exactly '/' whose lookup resolves without
\* error is redirected to /L/dashboard with a session and to /L/auth/login
\* without one.
C8_RootRedirect ==
  (LookupOk /\ req.pathname = "/") =>
     \E L \in ValidLocales :
        IF Truthy(session) THEN RedirectsTo("/" \o L \o "/dashboard")
        ELSE RedirectsTo("/" \o L \o "/auth/login")

\* the request targets the login page and so does its referer
LoginFromLogin ==
  /\ gpc # "idle"
  /\ ~ExcludedPath(req.pathname)
  /\ Includes(req.pathname, "/auth/login")
  /\ req.referer.present
  /\ Includes(req.referer.value, "/auth/login")

\* C9: a non-excluded request to the login page whose referer is the login
\* page is let through before any lookup is started: no lookup, no redirect,
\* no cookie cleared, with or without a session.
C9_LoopBreaker ==
  LoginFromLogin =>
     /\ lookup = "none"
     /\ gpc \in {"start", "done"}
     /\ Returned => PassThrough

\* C9 witness: a signed-in client on the login page asked for the login page
\* again and was let through.
C9_Witness ==
  /\ Returned
  /\ LoginFromLogin
  /\ provider.hasSession
  /\ req.pathname = "/en/auth/login"
  /\ PassThrough

\* the redirects of the chain so far, the one just returned included
RedirectCount ==
  Len(chain) + (IF Returned /\ response.kind = "redirect" THEN 1 ELSE 0)

\* C23: following the gate's own redirects from any starting path, with the
\* session status fixed, ends in a response that is no redirect after at most
\* 3 redirects; no redirect targets the path it answers, nor a path met
\* earlier in the chain.
C23_RedirectChainsTerminate ==
  /\ RedirectCount <= 3
  /\ (Returned /\ response.kind = "redirect") =>
       /\ response.pathname # req.pathname
       /\ \A k \in 1..Len(chain) : chain[k].pathname # response.pathname

\* C23 witness: a signed-in request for /auth/login was sent to /en/auth/login,
\* from there to /en/dashboard, and that page was let through.
C23_Witness ==
  /\ LookupOk
  /\ provider.hasSession
  /\ Len(chain) = 2
  /\ chain[1].pathname = "/auth/login"
  /\ chain[2].pathname = "/en/auth/login"
  /\ req.pathname = "/en/dashboard"
  /\ PassThrough

\* the response is a redirect to a login page
RedirectsToLogin ==
  \E L \in ValidLocales : RedirectsTo("/" \o L \o "/auth/login")

\* C24 (as claimed): whenever the lookup resolves with a session and no error,
\* the response is no redirect to a login page, for every path, referer and
\* cookie content.
C24_SessionNeverSentToLogin ==
  (LookupOk /\ Truthy(session)) => ~RedirectsToLogin

\* C24, amended: whenever the lookup resolves with a session and no error, a
\* path under a locale is never answered by a redirect to a login page; the
\* only such redirect is the locale-prefix redirect of /auth/login itself,
\* which carries no redirect parameter of the gate's making.
C24_SessionSentToLoginOnlyByLocalePrefix ==
  (LookupOk /\ Truthy(session) /\ RedirectsToLogin) =>
     /\ NoLocalePrefix(req.pathname)
     /\ req.pathname = "/auth/login"
     /\ response.pathname = "/" \o DefaultLocale \o req.pathname
     /\ response.search = req.search

\* C24 witness: a signed-in request for a protected page under a locale, with
\* a cookie cut short, went through every check and was let through.
C24_Witness ==
  /\ LookupOk
  /\ Truthy(session)
  /\ req.pathname = "/ar/contracts/new"
  /\ req.cookie0 = Some("aaaa.bbbb.c...")
  /\ req.referer = Some("http://h/en/auth/login")
  /\ response.kind = "next"

(***************************************************************************)
(* The client auth-state cache: AuthService                                *)
(***************************************************************************)

\* concurrent initializeAuth() calls followed
MaxInits == 2

\* subscriber callbacks
MaxListeners == 2

Inits == 1..MaxInits

Listeners == 1..MaxListeners

\* null / undefined
Null == [null |-> TRUE]

User(id) == [id |-> id, email |-> id \o "@example.test"]

ProviderSession(id, token) ==
  [user |-> User(id), access_token |-> token, refresh_token |-> token]

\* the mock session built from the check-session answer
MockSession(user) ==
  [user |-> user, access_token |-> "manual-check",
   refresh_token |-> "manual-check"]

\* private authState: AuthState = { ... }
InitialAuthState ==
  [user |-> Null, session |-> Null, loading |-> TRUE, mounted |-> FALSE,
   profile |-> Null, roles |-> <<>>, profileNotFound |-> FALSE]

\* { ...this.authState, ...updates }
MergeAppendingRoles(state, updates) ==
  [f \in DOMAIN state |->
     IF f \notin DOMAIN updates THEN state[f]
     ELSE IF f = "roles" THEN state[f] \o updates[f]
     ELSE updates[f]]

Merge(state, updates) ==
  [f \in DOMAIN state |-> IF f \in DOMAIN updates THEN updates[f] ELSE state[f]]

\* the states the cache goes through under successive updateState() calls
RECURSIVE StatesUnder(_, _)
StatesUnder(state, updates) ==
  IF updates = <<>> THEN <<>>
  ELSE LET next == Merge(state, Head(updates))
       IN  <<next>> \o StatesUnder(next, Tail(updates))

\* notifyListeners(): every registered callback gets this.authState
NotifyNobody(state, registered) == [to |-> {}, state |-> state]

Notify(state, registered) == [to |-> registered, state |-> state]

\* updateState(u) for each u of updates, in order, within one synchronous run
UpdateState(updates) ==
  LET states == StatesUnder(authState, updates) IN
  /\ authState' = IF states = <<>> THEN authState ELSE states[Len(states)]
  /\ delivered' = [k \in 1..Len(states) |-> Notify(states[k], listeners)]
  /\ updated' = (updated \/ updates # <<>>)

\* the updates the code makes
ClearSession ==
  [session |-> Null, user |-> Null, profile |-> Null, roles |-> <<>>]

ClearProfile == [profile |-> Null, roles |-> <<>>]

\* updateState({ loading: false, mounted: true }) when there is no client
NoClientUpdate == [loading |-> FALSE, mounted |-> TRUE]

\* updateState({ session: currentSession, user: currentSession?.user ?? null,
\*               loading: false, mounted: true })
SessionUpdate(s) ==
  [session |-> s, user |-> IF s = Null THEN Null ELSE s.user,
   loading |-> FALSE, mounted |-> TRUE]

\* updateState({ profile: null, roles: [], loading: false }) in the outer catch
CatchUpdateKeepsLoading == [profile |-> Null, roles |-> <<>>]

CatchUpdate == [profile |-> Null, roles |-> <<>>, loading |-> FALSE]

\* updateState({ session: refreshedSession, user: refreshedSession.user })
RefreshedUpdateSessionOnly(s) == [session |-> s]

RefreshedUpdate(s) == [session |-> s, user |-> s.user]

\* updateState({ session: mockSession, user: data.user })
ManualUpdate(user) == [session |-> MockSession(user), user |-> user]

\* updateState({ profile: userProfile, roles: userRoles,
\*               profileNotFound: !userProfile })
ProfileUpdate(userProfile, userRoles) ==
  [profile |-> userProfile, roles |-> userRoles,
   profileNotFound |-> (userProfile = Null)]

\* if (!currentSession)
NeedsRefreshAlways(s) == TRUE

NeedsRefresh(s) == s = Null

\* const userId = currentSession?.user?.id; if (userId)
HasUserId(s) == s # Null /\ s.user # Null /\ s.user.id # ""

\* the end of initializeAuth(), after the refresh block: the profile load is
\* started for currentSession's user, or profile and roles are cleared
TailUpdates(s) == IF HasUserId(s) THEN <<>> ELSE <<ClearProfile>>

\* no caller-invoked operation is in flight
NoOperation == [name |-> "none", pc |-> "idle", awaiting |-> "none", local |-> Null]

\* the steps of an initializeAuth() call
InitOps ==
  {"initializeAuth", "getSessionSettles", "refreshSettles", "checkFetchSettles",
   "checkJsonSettles"}

\* a step is taken: by whom, what the await it resumed from gave, and what it
\* returned to its caller if the method ended with a value
StepReturning(op, who, got, returned) ==
  /\ lastOp' = [op |-> op, who |-> who, got |-> got]
  /\ result' = returned
  /\ alone' = [j \in Inits |->
                 IF op \in InitOps /\ j = who
                 THEN op = "initializeAuth" \/ alone[j]
                 ELSE FALSE]

Step(op, who, got) == StepReturning(op, who, got, Null)

\* listener(this.authState) in subscribe()
SubscribeCallsNothing(l, state) == <<>>

SubscribeCalls(l, state) == <<[to |-> {l}, state |-> state]>>

\* the provider answers each call on its own
Unscripted == [scripted |-> FALSE]

\* the cache after construction
CacheInit ==
  /\ hasWindow \in BOOLEAN
  /\ supabaseClient = FALSE
  /\ authState = InitialAuthState
  /\ listeners = {}
  /\ unsubscribers = {}
  /\ ipc = [i \in Inits |-> "idle"]
  /\ currentSession = [i \in Inits |-> Null]
  /\ background = [i \in Inits |-> "none"]
  /\ delivered = <<>>
  /\ lastOp = [op |-> "none", who |-> 0, got |-> Null]
  /\ updated = FALSE
  /\ alone = [i \in Inits |-> FALSE]
  /\ opc = NoOperation
  /\ result = Null

AuthInit == CacheInit /\ answers = Unscripted

\* subscribe(listener). Listeners are numbered in the order in which they
\* first subscribe.
Subscribe(l) ==
  /\ UNCHANGED <<gvars, rvars>>
  /\ \A k \in Listeners : k < l => k \in unsubscribers
  /\ listeners' = listeners \cup {l}
  /\ unsubscribers' = unsubscribers \cup {l}
  /\ delivered' = SubscribeCalls(l, authState)
  /\ Step("subscribe", l, Null)
  /\ UNCHANGED <<hasWindow, answers, supabaseClient, authState, ipc, currentSession,
                 background, updated, opc>>

\* this.listeners.delete(listener)
DeleteNothing(registered, l) == registered

Delete(registered, l) == registered \ {l}

\* the function subscribe() returned
Unsubscribe(l) ==
  /\ UNCHANGED <<gvars, rvars>>
  /\ l \in unsubscribers
  /\ listeners' = Delete(listeners, l)
  /\ delivered' = <<>>
  /\ Step("unsubscribe", l, Null)
  /\ UNCHANGED <<hasWindow, answers, supabaseClient, authState, unsubscribers, ipc,
                 currentSession, background, updated, opc>>

\* what client.auth.getSession() gives initializeAuth(): a session, none, or
\* a rejection
GetSessionOutcomes ==
  {[kind |-> "ok", session |-> ProviderSession("u1", "t1")],
   [kind |-> "ok", session |-> Null],
   [kind |-> "throw", session |-> Null]}

\* what client.auth.refreshSession() gives: a session, nothing, an error, or a
\* rejection
RefreshOutcomes ==
  {[kind |-> "ok", session |-> ProviderSession("u1", "t2")],
   [kind |-> "ok", session |-> Null],
   [kind |-> "error", session |-> Null],
   [kind |-> "throw", session |-> Null]}

\* what response.json() gives for /api/auth/check-session, or a rejection
CheckSessionOutcomes ==
  {[kind |-> "ok", success |-> TRUE, hasSession |-> TRUE, user |-> User("u1")],
   [kind |-> "ok", success |-> FALSE, hasSession |-> FALSE, user |-> Null],
   [kind |-> "throw", success |-> FALSE, hasSession |-> FALSE, user |-> Null]}

\* what loadUserProfile() and loadUserRoles() resolve to
ProfileOutcomes(id) == {Null, [id |-> id, permissions |-> <<"contracts:read">>]}

RolesOutcomes == {<<>>, <<"admin">>}

\* ensureClient(): created on first use, in a browser only
EnsureClient == supabaseClient \/ hasWindow

\* initializeAuth() up to its first await. Calls are numbered in the order in
\* which they are made.
InitializeAuth(i) ==
  /\ UNCHANGED <<gvars, rvars>>
  /\ ipc[i] = "idle"
  /\ \A j \in Inits : j < i => ipc[j] # "idle"
  /\ supabaseClient' = EnsureClient
  /\ Step("initializeAuth", i, Null)
  /\ IF ~EnsureClient
     THEN /\ UpdateState(<<NoClientUpdate>>)
          /\ ipc' = [ipc EXCEPT ![i] = "done"]
     ELSE /\ UpdateState(<<>>)
          /\ ipc' = [ipc EXCEPT ![i] = "getSession"]
  /\ UNCHANGED <<hasWindow, answers, listeners, unsubscribers, currentSession, background,
                 opc>>

\* await client.auth.getSession() settles; the call runs to its next await or
\* to its end
GetSessionSettles(i) ==
  /\ UNCHANGED <<gvars, rvars>>
  /\ ipc[i] = "getSession"
  /\ \E out \in GetSessionOutcomes :
       /\ Step("getSessionSettles", i, out)
       /\ IF out.kind = "throw"
          THEN /\ UpdateState(<<CatchUpdate>>)
               /\ ipc' = [ipc EXCEPT ![i] = "done"]
               /\ UNCHANGED <<currentSession, background>>
          ELSE /\ currentSession' = [currentSession EXCEPT ![i] = out.session]
               /\ IF NeedsRefresh(out.session)
                  THEN /\ UpdateState(<<SessionUpdate(out.session)>>)
                       /\ ipc' = [ipc EXCEPT ![i] = "refresh"]
                       /\ UNCHANGED background
                  ELSE /\ UpdateState(<<SessionUpdate(out.session)>>
                                      \o TailUpdates(out.session))
                       /\ ipc' = [ipc EXCEPT ![i] = "done"]
                       /\ background' =
                            [background EXCEPT ![i] =
                               IF HasUserId(out.session) THEN "pending" ELSE @]
  /\ UNCHANGED <<hasWindow, answers, supabaseClient, listeners, unsubscribers, opc>>

\* await client.auth.refreshSession() settles. userId is read from
\* currentSession, which is null on this path: no profile load is started
RefreshSettles(i) ==
  /\ UNCHANGED <<gvars, rvars>>
  /\ ipc[i] = "refresh"
  /\ \E out \in RefreshOutcomes :
       /\ Step("refreshSettles", i, out)
       /\ IF out.kind = "error"
          THEN /\ UpdateState(<<>>)
               /\ ipc' = [ipc EXCEPT ![i] = "checkFetch"]
               /\ UNCHANGED background
          ELSE /\ IF out.kind = "ok" /\ out.session # Null
                  THEN UpdateState(<<RefreshedUpdate(out.session)>>
                                   \o TailUpdates(currentSession[i]))
                  ELSE UpdateState(<<ClearSession>>
                                   \o TailUpdates(currentSession[i]))
               /\ ipc' = [ipc EXCEPT ![i] = "done"]
               /\ background' =
                    [background EXCEPT ![i] =
                       IF HasUserId(currentSession[i]) THEN "pending" ELSE @]
  /\ UNCHANGED <<hasWindow, answers, supabaseClient, listeners, unsubscribers,
                 currentSession, opc>>

\* await fetch('/api/auth/check-session') settles
CheckFetchSettles(i) ==
  /\ UNCHANGED <<gvars, rvars>>
  /\ ipc[i] = "checkFetch"
  /\ \E rejected \in BOOLEAN :
       /\ Step("checkFetchSettles", i,
               [kind |-> IF rejected THEN "throw" ELSE "ok"])
       /\ IF rejected
          THEN /\ UpdateState(<<ClearSession>> \o TailUpdates(currentSession[i]))
               /\ ipc' = [ipc EXCEPT ![i] = "done"]
               /\ background' =
                    [background EXCEPT ![i] =
                       IF HasUserId(currentSession[i]) THEN "pending" ELSE @]
          ELSE /\ UpdateState(<<>>)
               /\ ipc' = [ipc EXCEPT ![i] = "checkJson"]
               /\ UNCHANGED background
  /\ UNCHANGED <<hasWindow, answers, supabaseClient, listeners, unsubscribers,
                 currentSession, opc>>

\* await response.json() settles
CheckJsonSettles(i) ==
  /\ UNCHANGED <<gvars, rvars>>
  /\ ipc[i] = "checkJson"
  /\ \E data \in CheckSessionOutcomes :
       /\ Step("checkJsonSettles", i, data)
       /\ IF data.kind = "ok" /\ data.success /\ data.hasSession
             /\ data.user # Null
          THEN UpdateState(<<ManualUpdate(data.user)>>
                           \o TailUpdates(currentSession[i]))
          ELSE UpdateState(<<ClearSession>> \o TailUpdates(currentSession[i]))
  /\ ipc' = [ipc EXCEPT ![i] = "done"]
  /\ background' =
       [background EXCEPT ![i] =
          IF HasUserId(currentSession[i]) THEN "pending" ELSE @]
  /\ UNCHANGED <<hasWindow, answers, supabaseClient, listeners, unsubscribers,
                 currentSession, opc>>

\* Promise.all([loadUserProfile(userId), loadUserRoles(userId)]) resolves; both
\* loaders catch their own errors and resolve to null and []
ProfileLoadSettles(i) ==
  /\ UNCHANGED <<gvars, rvars>>
  /\ background[i] = "pending"
  /\ \E userProfile \in ProfileOutcomes(currentSession[i].user.id),
        userRoles \in RolesOutcomes :
       /\ Step("profileLoadSettles", i,
               [kind |-> "ok", profile |-> userProfile, roles |-> userRoles])
       /\ UpdateState(<<ProfileUpdate(userProfile, userRoles)>>)
  /\ background' = [background EXCEPT ![i] = "done"]
  /\ UNCHANGED <<hasWindow, answers, supabaseClient, listeners, unsubscribers, ipc,
                 currentSession, opc>>

AuthNext ==
  \/ \E l \in Listeners : Subscribe(l) \/ Unsubscribe(l)
  \/ \E i \in Inits :
       \/ InitializeAuth(i)
       \/ GetSessionSettles(i)
       \/ RefreshSettles(i)
       \/ CheckFetchSettles(i)
       \/ CheckJsonSettles(i)
       \/ ProfileLoadSettles(i)

(***************************************************************************)
(* The caller-invoked operations. One is in flight at a time; it is         *)
(* interleaved with the listeners and with the first initializeAuth() call.  *)
(***************************************************************************)

\* results: { success: true }, { success: false, error }, and the undefined
\* of the void methods
Success == [success |-> TRUE, error |-> Absent]

Failure(message) == [success |-> FALSE, error |-> Some(message)]

Void == [void |-> TRUE]

\* an effect: the updateState() calls made and the value returned
Effect(updates, returned) == [updates |-> updates, returned |-> returned]

\* the users the provider knows by password
SignedInUser == User("u2")

\* what client.auth.signInWithPassword() gives
SignInOutcomes ==
  {[kind |-> "ok", user |-> SignedInUser,
    session |-> ProviderSession("u2", "t3")],
   [kind |-> "ok", user |-> Null, session |-> Null],
   [kind |-> "error", message |-> "Invalid login credentials"],
   [kind |-> "throw"]}

\* what client.auth.signUp() gives: with email confirmation the user comes
\* without a session
SignUpOutcomes ==
  {[kind |-> "ok", user |-> SignedInUser,
    session |-> ProviderSession("u2", "t4")],
   [kind |-> "ok", user |-> SignedInUser, session |-> Null],
   [kind |-> "ok", user |-> Null, session |-> Null],
   [kind |-> "error", message |-> "User already registered"],
   [kind |-> "throw"]}

\* what resetPasswordForEmail(), updateUser() and signInWithOAuth() give
PlainOutcomes ==
  {[kind |-> "ok"],
   [kind |-> "error", message |-> "Request failed"],
   [kind |-> "throw"]}

\* what fetch('/api/auth/logout') gives: a response, ok or not, or a rejection
LogoutFetchOutcomes ==
  {[kind |-> "ok", ok |-> TRUE], [kind |-> "ok", ok |-> FALSE],
   [kind |-> "throw"]}

\* what response.json() gives for the logout endpoint
LogoutJsonOutcomes ==
  {[kind |-> "ok", success |-> TRUE, error |-> Absent],
   [kind |-> "ok", success |-> FALSE, error |-> Absent],
   [kind |-> "ok", success |-> FALSE, error |-> Some("Logout failed")],
   [kind |-> "throw"]}

\* signIn after the await
SignInEffectUpdatesOnError(out) ==
  IF out.kind = "ok" /\ out.user # Null
  THEN Effect(<<[user |-> out.user, session |-> out.session]>>, Success)
  ELSE Effect(<<ClearSession>>, Failure("Internal error during sign in"))

SignInEffect(out) ==
  CASE out.kind = "throw" ->
         Effect(<<>>, Failure("Internal error during sign in"))
    [] out.kind = "error" -> Effect(<<>>, Failure(out.message))
    [] out.kind = "ok" /\ out.user # Null ->
         Effect(<<[user |-> out.user, session |-> out.session]>>, Success)
    [] OTHER -> Effect(<<>>, Failure("No user returned from sign in"))

\* signUp after the await
SignUpEffect(out) ==
  CASE out.kind = "throw" ->
         Effect(<<>>, Failure("Internal error during sign up"))
    [] out.kind = "error" -> Effect(<<>>, Failure(out.message))
    [] out.kind = "ok" /\ out.user # Null ->
         Effect(<<[user |-> out.user, session |-> out.session]>>, Success)
    [] OTHER -> Effect(<<>>, Failure("No user returned from sign up"))

\* resetPassword, updatePassword, updateProfile and signInWithProvider after
\* the await: on success they return without a call of updateState()
PlainEffect(out, internalError) ==
  CASE out.kind = "throw" -> Effect(<<>>, Failure(internalError))
    [] out.kind = "error" -> Effect(<<>>, Failure(out.message))
    [] OTHER -> Effect(<<>>, Success)

ResetPasswordEffect(out) ==
  PlainEffect(out, "Internal error during password reset")

UpdatePasswordEffect(out) ==
  PlainEffect(out, "Internal error during password update")

UpdateProfileEffect(out) ==
  PlainEffect(out, "Internal error during profile update")

SignInWithProviderEffect(out) ==
  PlainEffect(out, "Internal error during OAuth sign in")

\* refreshSession after the await
RefreshSessionEffectNoBroadcast(out) == Effect(<<>>, Void)

RefreshSessionEffect(out) ==
  IF out.kind = "ok" /\ out.session # Null
  THEN Effect(<<[session |-> out.session, user |-> out.session.user]>>, Void)
  ELSE Effect(<<>>, Void)

\* if (!response.ok || !data.success)
LogoutSucceededIgnoringStatus(ok, data) == data.success

LogoutSucceeded(ok, data) == ok /\ data.success

\* data.error || 'Failed to logout'
LogoutError(data) ==
  IF Truthy(data.error)
  THEN data.error.value
  ELSE "Failed to logout"

\* signOut after await response.json()
SignOutEffect(ok, data) ==
  CASE data.kind = "throw" ->
         Effect(<<>>, Failure("Internal error during sign out"))
    [] data.kind = "ok" /\ ~LogoutSucceeded(ok, data) ->
         Effect(<<>>, Failure(LogoutError(data)))
    [] OTHER -> Effect(<<ClearSession>>, Success)

\* the external call an operation awaits first
FirstAwait(name) ==
  CASE name = "signIn" -> "client.auth.signInWithPassword"
    [] name = "signUp" -> "client.auth.signUp"
    [] name = "signOut" -> "fetch /api/auth/logout"
    [] name = "resetPassword" -> "client.auth.resetPasswordForEmail"
    [] name = "updatePassword" -> "client.auth.updateUser"
    [] name = "updateProfile" -> "client.auth.updateUser"
    [] name = "signInWithProvider" -> "client.auth.signInWithOAuth"
    [] name = "refreshSession" -> "client.auth.refreshSession"
    [] OTHER -> "client.from(profiles)"

Awaiting(name, pc, call, local) ==
  [name |-> name, pc |-> pc, awaiting |-> call, local |-> local]

\* an operation that wraps one call of the provider SDK, up to its await:
\* without a client it returns at once
CallProvider(name, noClient) ==
  /\ opc.pc = "idle"
  /\ supabaseClient' = EnsureClient
  /\ IF ~EnsureClient
     THEN /\ StepReturning(name, 0, Null, noClient)
          /\ opc' = NoOperation
     ELSE /\ Step(name, 0, Null)
          /\ opc' = Awaiting(name, "await", FirstAwait(name), Null)
  /\ UpdateState(<<>>)
  /\ UNCHANGED <<hasWindow, answers, listeners, unsubscribers, ipc, currentSession,
                 background>>

\* the await of such an operation settles and the operation runs to its end
ProviderSettles(name, effect) ==
  /\ opc.name = name
  /\ opc.pc = "await"
  /\ UpdateState(effect.updates)
  /\ opc' = NoOperation
  /\ UNCHANGED <<hasWindow, answers, supabaseClient, listeners, unsubscribers, ipc,
                 currentSession, background>>

NoClient == Failure("No Supabase client available")

SignIn ==
  /\ UNCHANGED <<gvars, rvars>>
  /\ CallProvider("signIn", NoClient)

SignInSettles ==
  /\ UNCHANGED <<gvars, rvars>>
  /\ \E out \in SignInOutcomes :
       /\ ProviderSettles("signIn", SignInEffect(out))
       /\ StepReturning("signInSettles", 0, out, SignInEffect(out).returned)

SignUp ==
  /\ UNCHANGED <<gvars, rvars>>
  /\ CallProvider("signUp", NoClient)

SignUpSettles ==
  /\ UNCHANGED <<gvars, rvars>>
  /\ \E out \in SignUpOutcomes :
       /\ ProviderSettles("signUp", SignUpEffect(out))
       /\ StepReturning("signUpSettles", 0, out, SignUpEffect(out).returned)

ResetPassword ==
  /\ UNCHANGED <<gvars, rvars>>
  /\ CallProvider("resetPassword", NoClient)

ResetPasswordSettles ==
  /\ UNCHANGED <<gvars, rvars>>
  /\ \E out \in PlainOutcomes :
       /\ ProviderSettles("resetPassword", ResetPasswordEffect(out))
       /\ StepReturning("resetPasswordSettles", 0, out,
                        ResetPasswordEffect(out).returned)

UpdatePassword ==
  /\ UNCHANGED <<gvars, rvars>>
  /\ CallProvider("updatePassword", NoClient)

UpdatePasswordSettles ==
  /\ UNCHANGED <<gvars, rvars>>
  /\ \E out \in PlainOutcomes :
       /\ ProviderSettles("updatePassword", UpdatePasswordEffect(out))
       /\ StepReturning("updatePasswordSettles", 0, out,
                        UpdatePasswordEffect(out).returned)

UpdateProfile ==
  /\ UNCHANGED <<gvars, rvars>>
  /\ CallProvider("updateProfile", NoClient)

UpdateProfileSettles ==
  /\ UNCHANGED <<gvars, rvars>>
  /\ \E out \in PlainOutcomes :
       /\ ProviderSettles("updateProfile", UpdateProfileEffect(out))
       /\ StepReturning("updateProfileSettles", 0, out,
                        UpdateProfileEffect(out).returned)

SignInWithProvider ==
  /\ UNCHANGED <<gvars, rvars>>
  /\ CallProvider("signInWithProvider", NoClient)

SignInWithProviderSettles ==
  /\ UNCHANGED <<gvars, rvars>>
  /\ \E out \in PlainOutcomes :
       /\ ProviderSettles("signInWithProvider", SignInWithProviderEffect(out))
       /\ StepReturning("signInWithProviderSettles", 0, out,
                        SignInWithProviderEffect(out).returned)

RefreshSession ==
  /\ UNCHANGED <<gvars, rvars>>
  /\ CallProvider("refreshSession", Void)

RefreshSessionSettles ==
  /\ UNCHANGED <<gvars, rvars>>
  /\ \E out \in RefreshOutcomes :
       /\ ProviderSettles("refreshSession", RefreshSessionEffect(out))
       /\ StepReturning("refreshSessionSettles", 0, out,
                        RefreshSessionEffect(out).returned)

\* signOut up to await fetch('/api/auth/logout'): no client is asked for
SignOut ==
  /\ UNCHANGED <<gvars, rvars>>
  /\ opc.pc = "idle"
  /\ Step("signOut", 0, Null)
  /\ opc' = Awaiting("signOut", "fetch", FirstAwait("signOut"), Null)
  /\ UpdateState(<<>>)
  /\ UNCHANGED <<hasWindow, answers, supabaseClient, listeners, unsubscribers, ipc,
                 currentSession, background>>

\* the fetch settles; signOut goes on to await response.json()
SignOutFetchSettles ==
  /\ UNCHANGED <<gvars, rvars>>
  /\ opc.name = "signOut"
  /\ opc.pc = "fetch"
  /\ \E out \in LogoutFetchOutcomes :
       IF out.kind = "throw"
       THEN /\ StepReturning("signOutFetchSettles", 0, out,
                             Failure("Internal error during sign out"))
            /\ opc' = NoOperation
       ELSE /\ Step("signOutFetchSettles", 0, out)
            /\ opc' = Awaiting("signOut", "json", "response.json",
                               [ok |-> out.ok])
  /\ UpdateState(<<>>)
  /\ UNCHANGED <<hasWindow, answers, supabaseClient, listeners, unsubscribers, ipc,
                 currentSession, background>>

\* response.json() settles and signOut runs to its end
SignOutJsonSettles ==
  /\ UNCHANGED <<gvars, rvars>>
  /\ opc.name = "signOut"
  /\ opc.pc = "json"
  /\ \E data \in LogoutJsonOutcomes :
       /\ StepReturning("signOutJsonSettles", 0,
                        [kind |-> data.kind, ok |-> opc.local.ok,
                         data |-> data],
                        SignOutEffect(opc.local.ok, data).returned)
       /\ UpdateState(SignOutEffect(opc.local.ok, data).updates)
  /\ opc' = NoOperation
  /\ UNCHANGED <<hasWindow, answers, supabaseClient, listeners, unsubscribers, ipc,
                 currentSession, background>>

\* forceRefreshRole up to await this.loadUserProfile(this.authState.user.id);
\* loadUserProfile asks for the client
ForceRefreshRole ==
  /\ UNCHANGED <<gvars, rvars>>
  /\ opc.pc = "idle"
  /\ IF authState.user = Null
     THEN /\ StepReturning("forceRefreshRole", 0, Null, Void)
          /\ opc' = NoOperation
          /\ UNCHANGED supabaseClient
     ELSE /\ Step("forceRefreshRole", 0, Null)
          /\ supabaseClient' = EnsureClient
          /\ opc' = Awaiting("forceRefreshRole", "loadUserProfile",
                             FirstAwait("forceRefreshRole"),
                             [userId |-> authState.user.id])
  /\ UpdateState(<<>>)
  /\ UNCHANGED <<hasWindow, answers, listeners, unsubscribers, ipc, currentSession,
                 background>>

\* loadUserProfile resolves; this.authState.user.id is read again for
\* loadUserRoles, and throws into the catch block when the user is gone
ForceRefreshRoleProfileSettles ==
  /\ UNCHANGED <<gvars, rvars>>
  /\ opc.name = "forceRefreshRole"
  /\ opc.pc = "loadUserProfile"
  /\ \E userProfile \in IF supabaseClient
                        THEN ProfileOutcomes(opc.local.userId)
                        ELSE {Null} :
       IF authState.user = Null
       THEN /\ StepReturning("forceRefreshRoleProfileSettles", 0,
                             [kind |-> "throw"], Void)
            /\ opc' = NoOperation
       ELSE /\ Step("forceRefreshRoleProfileSettles", 0,
                    [kind |-> "ok", profile |-> userProfile])
            /\ opc' = Awaiting("forceRefreshRole", "loadUserRoles",
                               "client.from(user_roles)",
                               [userId |-> authState.user.id,
                                userProfile |-> userProfile])
  /\ UpdateState(<<>>)
  /\ UNCHANGED <<hasWindow, answers, supabaseClient, listeners, unsubscribers, ipc,
                 currentSession, background>>

\* loadUserRoles resolves; updateState({ profile: userProfile, roles: userRoles })
ForceRefreshRoleRolesSettles ==
  /\ UNCHANGED <<gvars, rvars>>
  /\ opc.name = "forceRefreshRole"
  /\ opc.pc = "loadUserRoles"
  /\ \E userRoles \in IF supabaseClient THEN RolesOutcomes ELSE {<<>>} :
       /\ StepReturning("forceRefreshRoleRolesSettles", 0,
                        [kind |-> "ok", profile |-> opc.local.userProfile,
                         roles |-> userRoles], Void)
       /\ UpdateState(<<[profile |-> opc.local.userProfile,
                         roles |-> userRoles]>>)
  /\ opc' = NoOperation
  /\ UNCHANGED <<hasWindow, answers, supabaseClient, listeners, unsubscribers, ipc,
                 currentSession, background>>

\* the initializeAuth() call the operations are interleaved with: the first
FirstInit == {i \in Inits : \A j \in Inits : i <= j}

OpsNext ==
  \/ \E l \in Listeners : Subscribe(l)
  \/ \E l \in Listeners : Unsubscribe(l)
  \/ \E i \in FirstInit : InitializeAuth(i)
  \/ \E i \in FirstInit : GetSessionSettles(i)
  \/ \E i \in FirstInit : RefreshSettles(i)
  \/ \E i \in FirstInit : CheckFetchSettles(i)
  \/ \E i \in FirstInit : CheckJsonSettles(i)
  \/ \E i \in FirstInit : ProfileLoadSettles(i)
  \/ SignIn
  \/ SignInSettles
  \/ SignUp
  \/ SignUpSettles
  \/ SignOut
  \/ SignOutFetchSettles
  \/ SignOutJsonSettles
  \/ ResetPassword
  \/ ResetPasswordSettles
  \/ UpdatePassword
  \/ UpdatePasswordSettles
  \/ UpdateProfile
  \/ UpdateProfileSettles
  \/ SignInWithProvider
  \/ SignInWithProviderSettles
  \/ RefreshSession
  \/ RefreshSessionSettles
  \/ ForceRefreshRole
  \/ ForceRefreshRoleProfileSettles
  \/ ForceRefreshRoleRolesSettles

(***************************************************************************)
(* Racing initializeAuth() calls against a provider that answers every call *)
(* alike                                                                     *)
(***************************************************************************)

\* the answers of a run: one per external call of initializeAuth()
Answers ==
  [scripted : {TRUE},
   getSession : GetSessionOutcomes,
   refresh : RefreshOutcomes,
   checkFetch : {[kind |-> "ok"], [kind |-> "throw"]},
   checkJson : CheckSessionOutcomes,
   profile : ProfileOutcomes("u1"),
   roles : RolesOutcomes]

RaceInitializeAuth(i) ==
  /\ answers.scripted
  /\ InitializeAuth(i)

RaceGetSessionSettles(i) ==
  /\ answers.scripted
  /\ GetSessionSettles(i)
  /\ lastOp'.got = answers.getSession

RaceRefreshSettles(i) ==
  /\ answers.scripted
  /\ RefreshSettles(i)
  /\ lastOp'.got = answers.refresh

RaceCheckFetchSettles(i) ==
  /\ answers.scripted
  /\ CheckFetchSettles(i)
  /\ lastOp'.got = answers.checkFetch

RaceCheckJsonSettles(i) ==
  /\ answers.scripted
  /\ CheckJsonSettles(i)
  /\ lastOp'.got = answers.checkJson

RaceProfileLoadSettles(i) ==
  /\ answers.scripted
  /\ ProfileLoadSettles(i)
  /\ lastOp'.got.profile = answers.profile
  /\ lastOp'.got.roles = answers.roles

RaceNext ==
  \E i \in Inits :
    \/ RaceInitializeAuth(i)
    \/ RaceGetSessionSettles(i)
    \/ RaceRefreshSettles(i)
    \/ RaceCheckFetchSettles(i)
    \/ RaceCheckJsonSettles(i)
    \/ RaceProfileLoadSettles(i)

(***************************************************************************)
(* The check-session endpoint: GET /api/auth/check-session. The handler      *)
(* keeps no state between requests; requests run concurrently.               *)
(***************************************************************************)

\* concurrent requests followed
MaxRequests == 2

Requests == 1..MaxRequests

\* the users the server-side provider knows: email is optional
RouteUsers ==
  {[id |-> "u1", email |-> Some("u1@example.test")],
   [id |-> "u2", email |-> Absent]}

\* what supabase.auth.getSession() gives on the server: the session is read
\* from the request's cookies, and the handler tells a session with a user
\* from one without
RouteSessionOutcomes ==
  {[kind |-> "ok", session |-> [user |-> u], error |-> Absent] :
     u \in RouteUsers \cup {Null}}
  \cup {[kind |-> "ok", session |-> Null, error |-> Absent],
        [kind |-> "ok", session |-> Null, error |-> Some("Auth session missing!")],
        [kind |-> "throw", session |-> Null, error |-> Absent]}

\* what supabase.auth.getUser() gives
RouteUserOutcomes ==
  {[kind |-> "ok", user |-> u, error |-> Absent] : u \in RouteUsers}
  \cup {[kind |-> "ok", user |-> Null, error |-> Absent],
        [kind |-> "ok", user |-> Null, error |-> Some("invalid JWT")],
        [kind |-> "throw", user |-> Null, error |-> Absent]}

NoLocals ==
  [session |-> Null, sessionError |-> Absent, user |-> Null,
   userError |-> Absent]

\* NextResponse.json({ success: false, hasSession: false, error })
ErrorBody(message) ==
  [success |-> FALSE, hasSession |-> FALSE, user |-> Null,
   error |-> Some(message)]

\* NextResponse.json({ success: true, hasSession: true,
\*                     user: { id: user.id, email: user.email } })
UserBodyWithoutSessionFlag(user) ==
  [success |-> TRUE, hasSession |-> FALSE,
   user |-> [id |-> user.id, email |-> user.email], error |-> Absent]

UserBody(user) ==
  [success |-> TRUE, hasSession |-> TRUE,
   user |-> [id |-> user.id, email |-> user.email], error |-> Absent]

\* the catch block
CatchBody == ErrorBody("Internal server error")

\* if (session && session.user)
HasSessionUser(s) == s # Null /\ s.user # Null

RouteInit ==
  /\ rpc = [r \in Requests |-> "idle"]
  /\ rlocal = [r \in Requests |-> NoLocals]
  /\ rbody = [r \in Requests |-> Null]

\* a request is answered: the handler returns a body
Respond(r, body) ==
  /\ rpc' = [rpc EXCEPT ![r] = "done"]
  /\ rbody' = [rbody EXCEPT ![r] = body]

\* GET() up to await createClient(). Requests are numbered in the order in
\* which they arrive.
GET(r) ==
  /\ UNCHANGED <<gvars, avars>>
  /\ rpc[r] = "idle"
  /\ \A q \in Requests : q < r => rpc[q] # "idle"
  /\ rpc' = [rpc EXCEPT ![r] = "createClient"]
  /\ UNCHANGED <<rlocal, rbody>>

\* await createClient() settles; the handler goes on to await cookies()
CreateClientSettles(r) ==
  /\ UNCHANGED <<gvars, avars>>
  /\ rpc[r] = "createClient"
  /\ \E threw \in BOOLEAN :
       IF threw
       THEN Respond(r, CatchBody)
       ELSE /\ rpc' = [rpc EXCEPT ![r] = "cookies"]
            /\ UNCHANGED rbody
  /\ UNCHANGED rlocal

\* await cookies() and the four cookie reads settle, the cookies are logged,
\* and the handler goes on to await supabase.auth.getSession()
CookiesSettle(r) ==
  /\ UNCHANGED <<gvars, avars>>
  /\ rpc[r] = "cookies"
  /\ \E threw \in BOOLEAN :
       IF threw
       THEN Respond(r, CatchBody)
       ELSE /\ rpc' = [rpc EXCEPT ![r] = "getSession"]
            /\ UNCHANGED rbody
  /\ UNCHANGED rlocal

\* await supabase.auth.getSession() settles
RouteGetSessionSettles(r) ==
  /\ UNCHANGED <<gvars, avars>>
  /\ rpc[r] = "getSession"
  /\ \E out \in RouteSessionOutcomes :
       IF out.kind = "throw"
       THEN /\ Respond(r, CatchBody)
            /\ UNCHANGED rlocal
       ELSE /\ rlocal' = [rlocal EXCEPT ![r].session = out.session,
                                        ![r].sessionError = out.error]
            /\ IF out.error.present
               THEN Respond(r, ErrorBody(out.error.value))
               ELSE IF HasSessionUser(out.session)
               THEN Respond(r, UserBody(out.session.user))
               ELSE /\ rpc' = [rpc EXCEPT ![r] = "getUser"]
                    /\ UNCHANGED rbody

\* await supabase.auth.getUser() settles
RouteGetUserSettles(r) ==
  /\ UNCHANGED <<gvars, avars>>
  /\ rpc[r] = "getUser"
  /\ \E out \in RouteUserOutcomes :
       IF out.kind = "throw"
       THEN /\ Respond(r, CatchBody)
            /\ UNCHANGED rlocal
       ELSE /\ rlocal' = [rlocal EXCEPT ![r].user = out.user,
                                        ![r].userError = out.error]
            /\ IF out.error.present
               THEN Respond(r, ErrorBody(out.error.value))
               ELSE IF out.user # Null
               THEN Respond(r, UserBody(out.user))
               ELSE Respond(r, ErrorBody("No session or user found"))

CheckSessionNext ==
  \E r \in Requests :
    \/ GET(r)
    \/ CreateClientSettles(r)
    \/ CookiesSettle(r)
    \/ RouteGetSessionSettles(r)
    \/ RouteGetUserSettles(r)

(***************************************************************************)
(* Properties of the cache                                                 *)
(***************************************************************************)

\* C10: subscribe(callback) invokes the callback exactly once, before it
\* returns, with the cache's current state; on a cache that no updateState()
\* has touched yet (no asynchronous work has completed) that state has
\* loading = true, mounted = false, user = null, session = null.
C10_SubscribeDeliversCurrentState ==
  lastOp.op = "subscribe" =>
     /\ delivered = <<[to |-> {lastOp.who}, state |-> authState]>>
     /\ ~updated =>
          /\ delivered[1].state.loading = TRUE
          /\ delivered[1].state.mounted = FALSE
          /\ delivered[1].state.user = Null
          /\ delivered[1].state.session = Null

\* C10 witness: a callback subscribed to the fresh cache while an
\* initializeAuth() call was waiting for getSession(), and got the loading state.
C10_Witness ==
  /\ lastOp.op = "subscribe"
  /\ ~updated
  /\ \E i \in Inits : ipc[i] = "getSession"
  /\ Len(delivered) = 1
  /\ delivered[1].to = {lastOp.who}
  /\ delivered[1].state.loading

(***************************************************************************)
(* initializeAuth(): what a call leaves behind                               *)
(***************************************************************************)

\* the state given to the listeners by the last updateState() of the last step
LastDelivered == delivered[Len(delivered)].state

\* call i has just settled, and nothing else has taken a step since it was made
SettledAlone(i) ==
  /\ ipc[i] = "done"
  /\ alone[i]
  /\ lastOp.who = i
  /\ lastOp.op \in InitOps

\* the step that settled the call is the one that found the session or the user
GotSession ==
  /\ lastOp.op = "getSessionSettles"
  /\ lastOp.got.kind = "ok"
  /\ lastOp.got.session # Null

RefreshedSession ==
  /\ lastOp.op = "refreshSettles"
  /\ lastOp.got.kind = "ok"
  /\ lastOp.got.session # Null

FallbackUser ==
  /\ lastOp.op = "checkJsonSettles"
  /\ lastOp.got.kind = "ok"
  /\ lastOp.got.success
  /\ lastOp.got.user # Null

\* the call settled at a step that gave nothing: an empty result, an error
\* result or a thrown exception
NoStepYielded ==
  \/ lastOp.op = "getSessionSettles" /\ lastOp.got.kind = "throw"
  \/ lastOp.op = "refreshSettles" /\ ~RefreshedSession
  \/ lastOp.op = "checkFetchSettles" /\ lastOp.got.kind = "throw"
  \/ lastOp.op = "checkJsonSettles" /\ ~FallbackUser

\* C11: after an initializeAuth() call in which no step yields a session has
\* settled, nothing else interleaved, the last state delivered to the
\* subscribers has session = null, user = null, profile = null and roles = [],
\* whatever state the call started from.
C11_NoSessionClearsState ==
  \A i \in Inits :
    (SettledAlone(i) /\ NoStepYielded) =>
      /\ delivered # <<>>
      /\ LastDelivered.session = Null
      /\ LastDelivered.user = Null
      /\ LastDelivered.profile = Null
      /\ LastDelivered.roles = <<>>

\* C12: after an initializeAuth() call in which one of the three steps
\* succeeds has settled, nothing else interleaved, user and session are both
\* non-null and are the values that step obtained (for the check-session
\* fallback, which gives a user only, the session is one made for that user).
C12_SuccessPopulatesUserAndSession ==
  \A i \in Inits :
    SettledAlone(i) =>
      /\ (GotSession \/ RefreshedSession) =>
           /\ authState.session # Null
           /\ authState.user # Null
           /\ authState.session = lastOp.got.session
           /\ authState.user = lastOp.got.session.user
      /\ FallbackUser =>
           /\ authState.session # Null
           /\ authState.user # Null
           /\ authState.user = lastOp.got.user
           /\ authState.session.user = lastOp.got.user

C12_Witness ==
  \E i \in Inits :
    /\ SettledAlone(i)
    /\ RefreshedSession
    /\ authState.user = User("u1")
    /\ authState.session = ProviderSession("u1", "t2")

\* C13: loading is true in the initial state, and once any initializeAuth()
\* call has settled, on whichever path, loading is false.
C13_LoadingFalseOnceSettled ==
  /\ ~updated => authState.loading
  /\ (\E i \in Inits : ipc[i] = "done") => ~authState.loading

C13_Witness ==
  /\ lastOp.op = "getSessionSettles"
  /\ lastOp.got.kind = "throw"
  /\ ipc[lastOp.who] = "done"
  /\ ~authState.loading

\* C14: once the first initializeAuth() call has settled, mounted is true,
\* whatever the outcome of that call.
C14_MountedOnceFirstCallSettled ==
  (\E i \in Inits : ipc[i] = "done" /\ \A j \in Inits : j >= i) =>
    authState.mounted

\* C15: whichever step of initializeAuth() produced the user, when it has an
\* identifier the profile-and-roles load is started for that user as the call
\* settles.
C15_ProfileLoadStartedForUser ==
  \A i \in Inits :
    (/\ ipc[i] = "done"
     /\ lastOp.who = i
     /\ lastOp.op \in InitOps
     /\ (GotSession \/ RefreshedSession \/ FallbackUser)
     /\ authState.user # Null
     /\ authState.user.id # "") =>
      background[i] = "pending"

\* the position of a call among its external calls
Rank(pc) ==
  CASE pc = "idle" -> 0
    [] pc = "getSession" -> 1
    [] pc = "refresh" -> 2
    [] pc = "checkFetch" -> 3
    [] pc = "checkJson" -> 4
    [] OTHER -> 5

\* C20: within one initializeAuth() call, getSession is called first,
\* refreshSession only after getSession returned no session, the check-session
\* endpoint only after refreshSession failed, and a call never goes back to an
\* external call it has made: each is made at most once.
C20_ExternalCallsOnceInOrder ==
  [][\A i \in Inits :
       /\ Rank(ipc'[i]) >= Rank(ipc[i])
       /\ (ipc'[i] = "getSession" /\ ipc[i] # "getSession") => ipc[i] = "idle"
       /\ (ipc'[i] = "refresh" /\ ipc[i] # "refresh") =>
            /\ ipc[i] = "getSession"
            /\ lastOp'.who = i
            /\ lastOp'.got.kind = "ok"
            /\ lastOp'.got.session = Null
       /\ (ipc'[i] = "checkFetch" /\ ipc[i] # "checkFetch") =>
            /\ ipc[i] = "refresh"
            /\ lastOp'.who = i
            /\ ~(lastOp'.got.kind = "ok" /\ lastOp'.got.session # Null)]_vars

C20_Witness ==
  \E i \in Inits :
    /\ ipc[i] = "done"
    /\ lastOp.who = i
    /\ lastOp.op = "checkJsonSettles"
    /\ currentSession[i] = Null

(***************************************************************************)
(* The caller-invoked operations: results, updates and broadcasts            *)
(***************************************************************************)

\* the steps at which signIn, signUp, signOut, resetPassword, updatePassword,
\* updateProfile and signInWithProvider resume from an external call
ResultSettles ==
  {"signInSettles", "signUpSettles", "signOutFetchSettles",
   "signOutJsonSettles", "resetPasswordSettles", "updatePasswordSettles",
   "updateProfileSettles", "signInWithProviderSettles"}

\* the logout endpoint answered, and answered ok with success = true
LogoutAnswered(last) ==
  last.op = "signOutJsonSettles" /\ last.got.kind = "ok"

LogoutAnsweredOk(last) ==
  LogoutAnswered(last) /\ last.got.ok /\ last.got.data.success

\* the step resumed from a provider or endpoint call that returned an error or
\* threw
CallFailed(last) ==
  /\ last.op \in ResultSettles
  /\ \/ last.got.kind \in {"error", "throw"}
     \/ LogoutAnswered(last) /\ ~LogoutAnsweredOk(last)

\* C16: when the provider or endpoint call of signIn, signUp, signOut,
\* resetPassword, updatePassword, updateProfile or signInWithProvider returns
\* an error or throws, the operation returns a result with success = false and
\* an error string, the auth state is unchanged and no subscriber is notified.
C16_FailureIsAResultAndNoUpdate ==
  [][CallFailed(lastOp') =>
       /\ result' # Null
       /\ result'.success = FALSE
       /\ Truthy(result'.error)
       /\ authState' = authState
       /\ delivered' = <<>>]_vars

C16_Witness ==
  /\ LogoutAnswered(lastOp)
  /\ ~lastOp.got.ok
  /\ result = Failure("Failed to logout")
  /\ authState.user = SignedInUser
  /\ listeners # {}
  /\ delivered = <<>>

\* the provider call of the step succeeded: with a user for signIn and signUp,
\* with a session for refreshSession
GaveUser(last) ==
  /\ last.op \in {"signInSettles", "signUpSettles"}
  /\ last.got.kind = "ok"
  /\ last.got.user # Null

GaveSession(last) ==
  /\ last.op = "refreshSessionSettles"
  /\ last.got.kind = "ok"
  /\ last.got.session # Null

GaveRoles(last) == last.op = "forceRefreshRoleRolesSettles"

PlainSucceeded(last) ==
  /\ last.op \in {"resetPasswordSettles", "updatePasswordSettles",
                  "updateProfileSettles", "signInWithProviderSettles"}
  /\ last.got.kind = "ok"

\* every registered subscriber was called by the last step
BroadcastToAll ==
  /\ delivered # <<>>
  /\ \A k \in 1..Len(delivered) : delivered[k].to = listeners

\* C17: each of signIn, signUp, resetPassword, updatePassword, updateProfile,
\* signInWithProvider, refreshSession and forceRefreshRole, when its provider
\* call succeeds, updates the state and broadcasts it to every registered
\* subscriber.
C17_SuccessUpdatesAndBroadcasts ==
  (\/ GaveUser(lastOp)
   \/ GaveSession(lastOp)
   \/ GaveRoles(lastOp)
   \/ PlainSucceeded(lastOp)) => BroadcastToAll

\* C17, amended: signIn and signUp given a user put that user and its session
\* in the state, refreshSession given a session puts the session and its user
\* in the state, forceRefreshRole puts the loaded profile and roles in the
\* state, each with one broadcast of the new state to every registered
\* subscriber; resetPassword, updatePassword, updateProfile and
\* signInWithProvider on success return success = true and neither change the
\* state nor notify anyone.
C17_SuccessUpdatesSessionOperationsOnly ==
  [][/\ GaveUser(lastOp') =>
          /\ authState'.user = lastOp'.got.user
          /\ authState'.session = lastOp'.got.session
          /\ delivered' = <<[to |-> listeners, state |-> authState']>>
          /\ result' = Success
     /\ GaveSession(lastOp') =>
          /\ authState'.session = lastOp'.got.session
          /\ authState'.user = lastOp'.got.session.user
          /\ delivered' = <<[to |-> listeners, state |-> authState']>>
     /\ GaveRoles(lastOp') =>
          /\ authState'.profile = lastOp'.got.profile
          /\ authState'.roles = lastOp'.got.roles
          /\ delivered' = <<[to |-> listeners, state |-> authState']>>
     /\ PlainSucceeded(lastOp') =>
          /\ authState' = authState
          /\ delivered' = <<>>
          /\ result' = Success]_vars

C17_Witness ==
  /\ lastOp.op = "updateProfileSettles"
  /\ lastOp.got.kind = "ok"
  /\ result = Success
  /\ authState.user = SignedInUser
  /\ listeners # {}
  /\ delivered = <<>>

\* C18: signOut awaits the logout endpoint and its body only, never the
\* provider SDK; when the endpoint answers ok with success = true the state
\* then delivered has user, session and profile null and no roles, and
\* signOut returns success = true; when it answers not-ok or success = false
\* the state is unchanged.
C18_SignOutThroughEndpointOnly ==
  [][/\ opc'.name = "signOut" =>
          opc'.awaiting \in {"fetch /api/auth/logout", "response.json"}
     /\ lastOp'.op \in {"signOut", "signOutFetchSettles", "signOutJsonSettles"}
          => supabaseClient' = supabaseClient
     /\ LogoutAnsweredOk(lastOp') =>
          /\ delivered' # <<>>
          /\ LastDelivered'.user = Null
          /\ LastDelivered'.session = Null
          /\ LastDelivered'.profile = Null
          /\ LastDelivered'.roles = <<>>
          /\ result' = Success
     /\ (LogoutAnswered(lastOp') /\ ~LogoutAnsweredOk(lastOp')) =>
          authState' = authState]_vars

C18_Witness ==
  /\ LogoutAnsweredOk(lastOp)
  /\ result = Success
  /\ listeners # {}
  /\ Len(delivered) = 1
  /\ delivered[1].to = listeners
  /\ delivered[1].state.user = Null
  /\ delivered[1].state.roles = <<>>
  /\ authState.mounted

\* C19: every change of the auth state is followed, within the same step, by a
\* call of every registered subscriber; each call gives a whole record, and
\* the last record given is the state of the cache.
C19_WholeRecordBroadcastOnEveryMutation ==
  [][/\ authState' # authState => delivered' # <<>>
     /\ (delivered' # <<>> /\ lastOp'.op # "subscribe") =>
          /\ \A k \in 1..Len(delivered') :
               /\ delivered'[k].to = listeners'
               /\ DOMAIN delivered'[k].state = DOMAIN InitialAuthState
          /\ LastDelivered' = authState']_vars

C19_Witness ==
  /\ lastOp.op = "refreshSettles"
  /\ Len(delivered) = 2
  /\ Cardinality(listeners) >= 2
  /\ delivered[1].to = listeners
  /\ delivered[2].state = authState
  /\ delivered[1].state # authState

(***************************************************************************)
(* Racing initializeAuth() calls                                             *)
(***************************************************************************)

\* no call is suspended and no profile load is pending, and a call was made
Quiescent ==
  /\ \A i \in Inits : ipc[i] \in {"idle", "done"} /\ background[i] # "pending"
  /\ \E i \in Inits : ipc[i] = "done"

\* the state one initializeAuth() call, run alone from the initial state,
\* ends in when the provider answers as a says
SingleCallFinal(a, window) ==
  LET settled == [InitialAuthState EXCEPT !.loading = FALSE, !.mounted = TRUE]
      signedIn(s, u) == [settled EXCEPT !.session = s, !.user = u]
  IN
  IF ~window THEN settled
  ELSE IF a.getSession.kind = "throw"
  THEN [InitialAuthState EXCEPT !.loading = FALSE]
  ELSE IF a.getSession.session # Null
  THEN [signedIn(a.getSession.session, a.getSession.session.user)
          EXCEPT !.profile = a.profile, !.roles = a.roles,
                 !.profileNotFound = (a.profile = Null)]
  ELSE IF a.refresh.kind = "ok" /\ a.refresh.session # Null
  THEN signedIn(a.refresh.session, a.refresh.session.user)
  ELSE IF /\ a.refresh.kind = "error"
          /\ a.checkFetch.kind = "ok"
          /\ a.checkJson.kind = "ok"
          /\ a.checkJson.success
          /\ a.checkJson.user # Null
  THEN signedIn(MockSession(a.checkJson.user), a.checkJson.user)
  ELSE settled

\* C21: initializeAuth() calls racing against a provider that gives all of
\* them the same answers end, under every interleaving of their suspension
\* points and of their profile loads, in the state a single call ends in.
C21_RacingCallsEndAsOneCall ==
  (answers.scripted /\ Quiescent) =>
     authState = SingleCallFinal(answers, hasWindow)

\* C21 witness: two calls have raced, the profile load of the second resolved
\* before that of the first, and the state is the one a single call ends in.
C21_Witness ==
  /\ answers.scripted
  /\ Quiescent
  /\ \E i, j \in Inits :
       /\ i < j
       /\ background[i] = "done"
       /\ background[j] = "done"
       /\ lastOp.op = "profileLoadSettles"
       /\ lastOp.who = i
  /\ authState.profile # Null
  /\ authState = SingleCallFinal(answers, hasWindow)

\* C22: in every state delivered to a subscriber, whatever operations and
\* profile loads have been interleaved, a null user comes with a null profile
\* and no roles.
C22_NoProfileWithoutUser ==
  \A k \in 1..Len(delivered) :
    (delivered[k].to # {} /\ delivered[k].state.user = Null) =>
       /\ delivered[k].state.profile = Null
       /\ delivered[k].state.roles = <<>>

\* the callbacks called by the last step
Called == UNION {delivered[k].to : k \in 1..Len(delivered)}

\* C25: once the function returned by subscribe(callback) has been called,
\* the callback is registered no more and no later update calls it, until it
\* subscribes again; every callback that stays registered is called at each
\* update.
C25_UnsubscribedNeverCalledAgain ==
  [][\A l \in Listeners :
       /\ (lastOp'.op = "unsubscribe" /\ lastOp'.who = l) =>
            l \notin listeners'
       /\ (l \notin listeners /\ ~(lastOp'.op = "subscribe" /\ lastOp'.who = l))
            => /\ l \notin listeners'
               /\ l \notin Called'
       /\ (/\ l \in listeners
           /\ lastOp'.op \notin {"subscribe", "unsubscribe"}
           /\ delivered' # <<>>) =>
            /\ l \in listeners'
            /\ \A k \in 1..Len(delivered') : l \in delivered'[k].to]_vars

\* C25 witness: callback 1 has unsubscribed, callback 2 has not, and an update
\* of initializeAuth() has called callback 2 alone.
C25_Witness ==
  /\ lastOp.op = "getSessionSettles"
  /\ 1 \in unsubscribers \ listeners
  /\ delivered # <<>>
  /\ Called = {2}
  /\ listeners = {2}

(***************************************************************************)
(* Properties of the check-session endpoint                                  *)
(***************************************************************************)

\* a returned body: success equals hasSession, a user object is present
\* exactly when success is true, an error string exactly when it is false
BodyShape(body) ==
  /\ body # Null
  /\ body.success = body.hasSession
  /\ (body.user # Null) <=> body.success
  /\ body.error.present <=> ~body.success

\* every request that has returned has a body of that shape, and no other
\* request has a body
EveryResponseHasBodyShape ==
  \A r \in Requests :
    /\ rpc[r] = "done" => BodyShape(rbody[r])
    /\ rpc[r] # "done" => rbody[r] = Null

\* the request has awaited getUser()
ConsultedGetUser(r) ==
  \/ rpc[r] = "getUser"
  \/ rlocal[r].user # Null
  \/ rlocal[r].userError.present

Init == GateInit /\ AuthInit /\ RouteInit

Spec == Init /\ [][GateNext]_vars

SpecAuth == Init /\ [][AuthNext]_vars

SpecOps == Init /\ [][OpsNext]_vars

RaceInit == GateInit /\ CacheInit /\ RouteInit /\ answers \in Answers

SpecRace == RaceInit /\ [][RaceNext]_vars

SpecCheckSession == Init /\ [][CheckSessionNext]_vars

====
